---- MODULE Spec2Model ----
(***************************************************************************)
(* Model of recognition/45813788_Siamese/train.py: the two training loops  *)
(* siamese_train (Stage A) and classifier_train (Stage B).                 *)
(*                                                                         *)
(* One run of one stage is modelled as a sequential program; pc is the     *)
(* position in the function body.  What the loops receive from their       *)
(* collaborators (the scalar loss of a batch, the size of a batch, the     *)
(* classes of the labels of a batch, the value roc_auc_score returns) is   *)
(* drawn from small sets.                                                  *)
(*                                                                         *)
(* Numbers: a loss is an integer number of tenths; a mean is the pair      *)
(* <<sum, count>> (the quotient the code computes, kept exact) and means   *)
(* are compared by cross multiplication; float('inf') is <<1, 0>>.         *)
(* An AUROC is an integer number of tenths in 0..10, np.nan is NaN, and    *)
(* every comparison with NaN is false, as in IEEE arithmetic.              *)
(* Model parameters are version numbers: every optimizer step that         *)
(* updates a model yields a new version of its parameters.                 *)
(*                                                                         *)
(* Left out, because no decision of the loops reads them: the plateau      *)
(* scheduler and the learning-rate printout, the accuracy counters, the    *)
(* collected embeddings and the plots.  Of the history lists only          *)
(* val_losses (Stage A) and val_aurocs (Stage B) are kept whole; of the    *)
(* others the last appended element is kept (avg_train_loss, ...).         *)
(***************************************************************************)
EXTENDS Integers, Sequences, FiniteSets

\* ------------------------------------------------------------- bounds
MaxEpochs == 3
MaxBatches == 2

\* the scalar losses a batch may yield (tenths) and the sizes it may have
LossValues == {4, 8}
BatchSizes == {1, 2}
\* the values roc_auc_score may return (tenths)
AurocValues == {0, 5, 10}
\* label counts <<benign, malignant>> of the training set of Stage B
TrainLabelCounts == {<<3, 2>>, <<2, 0>>, <<0, 2>>}

\* ---------------------------------------------------------- constants
NaN == -1
Inf == <<1, 0>>
Models == {"siamese", "classifier"}
NoFile == [exists |-> FALSE, state |-> 0]
\* no weight computed yet / no loss computed yet
NoWeight == <<0, 0>>

VARIABLES
  stage,          \* "A": siamese_train, "B": classifier_train
  epochs,         \* the epochs argument
  nTrain, nVal,   \* len(train_loader), len(val_loader)
  ds,             \* <<benign, malignant>> counts of train_loader.dataset
  pc, error,      \* position in the function; the exception that ended it
  epoch, batch,   \* loop indices
  params,         \* parameter version of each model
  grad,           \* models whose parameters hold a gradient
  files, writes,  \* the checkpoint slots and how often each was written
  best_loss, best_auroc,
  epoch_loss, val_loss, avg_train_loss, avg_val_loss,
  val_hist,       \* val_losses (Stage A) / val_aurocs (Stage B)
  pos_weight, used_weight,
  train_classes, val_classes, train_auroc, val_auroc,
  train_report, val_report,
  \* history variables, not program state
  train_sum,      \* the batch losses of the training pass, added up
  val_sum,        \* the batch losses of the validation pass, added up
  saved_hist,     \* per finished epoch: was the best slot written in it
  eval_params,    \* parameter version the current validation pass evaluated
  best_epoch      \* epoch (1-based) whose parameters the best slot holds

vars == <<stage, epochs, nTrain, nVal, ds, pc, error, epoch, batch, params,
          grad, files, writes, best_loss, best_auroc, epoch_loss, val_loss,
          avg_train_loss, avg_val_loss, val_hist, pos_weight, used_weight,
          train_classes, val_classes, train_auroc, val_auroc, train_report,
          val_report, train_sum, val_sum, saved_hist, eval_params,
          best_epoch>>

inputs == <<stage, epochs, nTrain, nVal, ds>>
stageB == <<pos_weight, used_weight, train_classes, val_classes, train_auroc,
            val_auroc, train_report, val_report, best_auroc>>

\* ------------------------------------------------------------ helpers
\* a < b for means <<sum, count>>; float('inf') is <<1, 0>>
LessEq(a, b) == a[1] * b[2] <= b[1] * a[2]
Less(a, b) == a[1] * b[2] < b[1] * a[2]

\* a > b for AUROC values, one of which may be np.nan
GreaterEq(a, b) == a # NaN /\ b # NaN /\ a >= b
Greater(a, b) == a # NaN /\ b # NaN /\ a > b

\* epoch_loss += loss.item()
AccumulateWeighted(acc, loss, size) == acc + loss * size
Accumulate(acc, loss, size) == acc + loss

\* epoch_loss / len(loader)
Mean(total, n) == <<total, n>>

\* optimizer.step(): the parameters the optimizer was built over that hold
\* a gradient move to a new version
OptimizerStep(p, opt, g) ==
  [m \in Models |-> IF m \in opt /\ m \in g THEN p[m] + 1 ELSE p[m]]

\* torch.save(model.state_dict(), path)
Save(f, slot, state) == [f EXCEPT ![slot] = [exists |-> TRUE, state |-> state]]

Abort(e) ==
  /\ pc' = "aborted"
  /\ error' = e

\* The end of the loop body.  The per-epoch locals are dead here: the next
\* iteration assigns each of them before it reads it, and nothing after the
\* loop reads them.  The model puts them back to their initial values, so
\* that stale values do not tell otherwise equal states apart.
EndOfIteration ==
  /\ batch' = 0
  /\ epoch_loss' = 0
  /\ val_loss' = 0
  /\ avg_train_loss' = <<0, 1>>
  /\ avg_val_loss' = <<0, 1>>
  /\ train_sum' = 0
  /\ val_sum' = 0
  /\ train_classes' = {}
  /\ val_classes' = {}
  /\ train_auroc' = NaN
  /\ val_auroc' = NaN
  /\ train_report' = FALSE
  /\ val_report' = FALSE

\* --------------------------------------------------------------- Init
Init ==
  /\ stage \in {"A", "B"}
  /\ epochs \in 0..MaxEpochs
  /\ nTrain \in 0..MaxBatches
  /\ nVal \in 0..MaxBatches
  /\ ds \in IF stage = "B" THEN TrainLabelCounts ELSE {<<0, 0>>}
  /\ pc = "start"
  /\ error = "none"
  /\ epoch = 0
  /\ batch = 0
  /\ params = [m \in Models |-> 0]
  /\ grad = {}
  /\ files = [s \in {"best", "final"} |-> NoFile]
  /\ writes = [s \in {"best", "final"} |-> 0]
  /\ best_loss = Inf
  /\ best_auroc = 0
  /\ epoch_loss = 0
  /\ val_loss = 0
  /\ avg_train_loss = <<0, 1>>
  /\ avg_val_loss = <<0, 1>>
  /\ val_hist = <<>>
  /\ pos_weight = NoWeight
  /\ used_weight = NoWeight
  /\ train_classes = {}
  /\ val_classes = {}
  /\ train_auroc = NaN
  /\ val_auroc = NaN
  /\ train_report = FALSE
  /\ val_report = FALSE
  /\ train_sum = 0
  /\ val_sum = 0
  /\ saved_hist = <<>>
  /\ eval_params = 0
  /\ best_epoch = 0

\* ============================================================ Stage A
\* line 31: the parameters the Stage A optimizer is built over
OptimizerParamsA == {"siamese"}

\* lines 18-39: model, criterion, optimizer, scheduler, best_loss = inf
SiameseSetup ==
  /\ stage = "A" /\ pc = "start"
  /\ best_loss' = Inf
  /\ val_hist' = <<>>
  /\ epoch' = 0
  /\ pc' = "loop"
  /\ UNCHANGED <<inputs, stageB, error, batch, params, grad, files, writes,
                 epoch_loss, val_loss, avg_train_loss, avg_val_loss,
                 train_sum, val_sum, saved_hist, eval_params, best_epoch>>

\* line 41 taken, lines 43-44: the next epoch begins
SiameseEpochBegin ==
  /\ stage = "A" /\ pc = "loop" /\ epoch < epochs
  /\ epoch' = epoch + 1
  /\ epoch_loss' = 0
  /\ train_sum' = 0
  /\ batch' = 0
  /\ pc' = "train"
  /\ UNCHANGED <<inputs, stageB, error, params, grad, files, writes,
                 best_loss, val_loss, avg_train_loss, avg_val_loss, val_hist,
                 val_sum, saved_hist, eval_params, best_epoch>>

\* lines 49-55: the optimizer step of one Stage A batch; the forward pass
\* runs with gradients enabled, so backward() leaves a gradient on the model
SiameseStep(p) == OptimizerStep(p, OptimizerParamsA, {"siamese"})

\* lines 46-57: one training batch
SiameseTrainBatch ==
  /\ stage = "A" /\ pc = "train" /\ batch < nTrain
  /\ \E loss \in LossValues, size \in BatchSizes :
       /\ epoch_loss' = Accumulate(epoch_loss, loss, size)
       /\ train_sum' = train_sum + loss
  /\ grad' = {"siamese"}
  /\ params' = SiameseStep(params)
  /\ batch' = batch + 1
  /\ UNCHANGED <<inputs, stageB, pc, error, epoch, files, writes, best_loss,
                 val_loss, avg_train_loss, avg_val_loss, val_hist, val_sum,
                 saved_hist, eval_params, best_epoch>>

\* lines 59-66: the training loader is exhausted; mean training loss
SiameseTrainEnd ==
  /\ stage = "A" /\ pc = "train" /\ batch = nTrain
  /\ IF nTrain = 0
       THEN /\ Abort("ZeroDivisionError")
            /\ UNCHANGED <<avg_train_loss, val_loss, batch, val_sum,
                           eval_params>>
       ELSE /\ avg_train_loss' = Mean(epoch_loss, nTrain)
            /\ val_loss' = 0
            /\ val_sum' = 0
            /\ batch' = 0
            /\ eval_params' = params["siamese"]
            /\ pc' = "val"
            /\ UNCHANGED error
  /\ UNCHANGED <<inputs, stageB, epoch, params, grad, files, writes,
                 best_loss, epoch_loss, avg_val_loss, val_hist, train_sum,
                 saved_hist, best_epoch>>

\* lines 68-80: one validation batch, under torch.no_grad()
SiameseValBatch ==
  /\ stage = "A" /\ pc = "val" /\ batch < nVal
  /\ \E loss \in LossValues, size \in BatchSizes :
       /\ val_loss' = Accumulate(val_loss, loss, size)
       /\ val_sum' = val_sum + loss
  /\ eval_params' = params["siamese"]
  /\ batch' = batch + 1
  /\ UNCHANGED <<inputs, stageB, pc, error, epoch, params, grad, files,
                 writes, best_loss, epoch_loss, avg_train_loss, avg_val_loss,
                 val_hist, train_sum, saved_hist, best_epoch>>

\* lines 82-90: mean validation loss, scheduler step
SiameseValEnd ==
  /\ stage = "A" /\ pc = "val" /\ batch = nVal
  /\ IF nVal = 0
       THEN /\ Abort("ZeroDivisionError")
            /\ UNCHANGED <<avg_val_loss, val_hist>>
       ELSE /\ avg_val_loss' = Mean(val_loss, nVal)
            /\ val_hist' = Append(val_hist, Mean(val_loss, nVal))
            /\ pc' = "ckpt"
            /\ UNCHANGED error
  /\ UNCHANGED <<inputs, stageB, epoch, batch, params, grad, files, writes,
                 best_loss, epoch_loss, val_loss, avg_train_loss, train_sum,
                 val_sum, saved_hist, eval_params, best_epoch>>

\* line 93: avg_val_loss < best_loss
ImprovedLossOrEqual(v, b) == LessEq(v, b)
ImprovedLossReversed(v, b) == Less(b, v)
ImprovedLoss(v, b) == Less(v, b)

\* line 94: best_loss = avg_val_loss
KeepBestLoss(v, b) == b
NewBestLoss(v, b) == v

\* lines 92-105: the checkpoint decision of the epoch
SiameseCheckpoint ==
  /\ stage = "A" /\ pc = "ckpt"
  /\ IF ImprovedLoss(avg_val_loss, best_loss)
       THEN /\ best_loss' = NewBestLoss(avg_val_loss, best_loss)
            /\ files' = Save(files, "best", params["siamese"])
            /\ writes' = [writes EXCEPT !["best"] = @ + 1]
            /\ best_epoch' = epoch
            /\ saved_hist' = Append(saved_hist, TRUE)
       ELSE /\ saved_hist' = Append(saved_hist, FALSE)
            /\ UNCHANGED <<best_loss, files, writes, best_epoch>>
  /\ EndOfIteration
  /\ pc' = "loop"
  /\ UNCHANGED <<inputs, error, epoch, params, grad, val_hist, pos_weight,
                 used_weight, best_auroc, eval_params>>

\* lines 108-112: the loop is over; the final checkpoint
SiameseSaveFinalBest ==
  /\ stage = "A" /\ pc = "loop" /\ epoch = epochs
  /\ files' = Save(files, "final", files["best"].state)
  /\ writes' = [writes EXCEPT !["final"] = @ + 1]
  /\ pc' = "done"
  /\ UNCHANGED <<inputs, stageB, error, epoch, batch, params, grad,
                 best_loss, epoch_loss, val_loss, avg_train_loss,
                 avg_val_loss, val_hist, train_sum, val_sum, saved_hist,
                 eval_params, best_epoch>>
SiameseSaveFinal ==
  /\ stage = "A" /\ pc = "loop" /\ epoch = epochs
  /\ files' = Save(files, "final", params["siamese"])
  /\ writes' = [writes EXCEPT !["final"] = @ + 1]
  /\ pc' = "done"
  /\ UNCHANGED <<inputs, stageB, error, epoch, batch, params, grad,
                 best_loss, epoch_loss, val_loss, avg_train_loss,
                 avg_val_loss, val_hist, train_sum, val_sum, saved_hist,
                 eval_params, best_epoch>>

\* ============================================================ Stage B
\* line 133: the parameters the Stage B optimizer is built over
OptimizerParamsB == {"classifier"}

\* lines 174-180: the models backward() leaves a gradient on; the
\* embeddings are computed under torch.no_grad()
ClassifierGraph == {"classifier"}

\* lines 140-145: benign_count / malignant_count
PosWeightInverse(b, m) == <<m, b>>
PosWeight(b, m) == <<b, m>>

\* lines 120-159: models, optimizer, pos_weight, criterion, best_auroc = 0.0
ClassifierSetup ==
  /\ stage = "B" /\ pc = "start"
  /\ IF ds[2] = 0
       THEN /\ Abort("ZeroDivisionError")
            /\ UNCHANGED <<pos_weight, best_auroc, val_hist, epoch>>
       ELSE /\ pos_weight' = PosWeight(ds[1], ds[2])
            /\ best_auroc' = 0
            /\ val_hist' = <<>>
            /\ epoch' = 0
            /\ pc' = "loop"
            /\ UNCHANGED error
  /\ UNCHANGED <<inputs, batch, params, grad, files, writes, best_loss,
                 epoch_loss, val_loss, avg_train_loss, avg_val_loss,
                 used_weight, train_classes, val_classes, train_auroc,
                 val_auroc, train_report, val_report, train_sum, val_sum,
                 saved_hist, eval_params, best_epoch>>

\* line 161 taken, lines 163-168: the next epoch begins
ClassifierEpochBegin ==
  /\ stage = "B" /\ pc = "loop" /\ epoch < epochs
  /\ epoch' = epoch + 1
  /\ epoch_loss' = 0
  /\ train_sum' = 0
  /\ batch' = 0
  /\ train_classes' = {}
  /\ pc' = "train"
  /\ UNCHANGED <<inputs, error, params, grad, files, writes, best_loss,
                 best_auroc, val_loss, avg_train_loss, avg_val_loss,
                 val_hist, pos_weight, used_weight, val_classes, train_auroc,
                 val_auroc, train_report, val_report, val_sum, saved_hist,
                 eval_params, best_epoch>>

\* the validation set holds labels of both classes
ValLabelCounts == <<1, 1>>

\* the classes the labels of a batch of the given size can hold, drawn from
\* a data set with the label counts c
BatchClasses(c, size) ==
  {k \in SUBSET {0, 1} :
     /\ k # {}
     /\ Cardinality(k) <= size
     /\ 0 \in k => c[1] > 0
     /\ 1 \in k => c[2] > 0}

\* lines 174-181: the optimizer step of one Stage B batch
ClassifierStepJoint(p) == OptimizerStep(p, Models, Models)
ClassifierStep(p) == OptimizerStep(p, OptimizerParamsB, ClassifierGraph)

\* lines 170-192: one training batch
ClassifierTrainBatch ==
  /\ stage = "B" /\ pc = "train" /\ batch < nTrain
  /\ \E loss \in LossValues, size \in BatchSizes :
       /\ epoch_loss' = Accumulate(epoch_loss, loss, size)
       /\ train_sum' = train_sum + loss
       /\ \E k \in BatchClasses(ds, size) :
            train_classes' = train_classes \cup k
  /\ used_weight' = pos_weight
  /\ grad' = ClassifierGraph
  /\ params' = ClassifierStep(params)
  /\ batch' = batch + 1
  /\ UNCHANGED <<inputs, pc, error, epoch, files, writes, best_loss,
                 best_auroc, val_loss, avg_train_loss, avg_val_loss,
                 val_hist, pos_weight, val_classes, train_auroc, val_auroc,
                 train_report, val_report, val_sum, saved_hist, eval_params,
                 best_epoch>>

\* lines 201 and 253: roc_auc_score raises ValueError unless both classes
\* are among the labels
RocAucRaises(classes) == Cardinality(classes) # 2

\* lines 207 and 258: except ValueError
CatchesNothing == FALSE
CatchesValueError == TRUE

\* lines 214-220: the validation pass begins
ValidationBegin ==
  /\ val_loss' = 0
  /\ val_sum' = 0
  /\ val_classes' = {}
  /\ batch' = 0
  /\ eval_params' = params["classifier"]
  /\ pc' = "val"
  /\ UNCHANGED error

\* lines 194-220: mean training loss, training AUROC and report
ClassifierTrainEnd ==
  /\ stage = "B" /\ pc = "train" /\ batch = nTrain
  /\ IF nTrain = 0
       THEN /\ Abort("ZeroDivisionError")
            /\ UNCHANGED <<avg_train_loss, train_auroc, train_report,
                           val_loss, val_sum, val_classes, batch,
                           eval_params>>
       ELSE /\ avg_train_loss' = Mean(epoch_loss, nTrain)
            /\ IF RocAucRaises(train_classes)
                 THEN IF CatchesValueError
                        THEN /\ train_auroc' = NaN
                             /\ UNCHANGED train_report
                             /\ ValidationBegin
                        ELSE /\ Abort("ValueError")
                             /\ UNCHANGED <<train_auroc, train_report,
                                            val_loss, val_sum, val_classes,
                                            batch, eval_params>>
                 ELSE /\ train_auroc' \in AurocValues
                      /\ train_report' = TRUE
                      /\ ValidationBegin
  /\ UNCHANGED <<inputs, epoch, params, grad, files, writes, best_loss,
                 best_auroc, epoch_loss, avg_val_loss, val_hist, pos_weight,
                 used_weight, train_classes, val_auroc, val_report,
                 train_sum, saved_hist, best_epoch>>

\* lines 223-243: one validation batch, under torch.no_grad()
ClassifierValBatch ==
  /\ stage = "B" /\ pc = "val" /\ batch < nVal
  /\ \E loss \in LossValues, size \in BatchSizes :
       /\ val_loss' = Accumulate(val_loss, loss, size)
       /\ val_sum' = val_sum + loss
       /\ \E k \in BatchClasses(ValLabelCounts, size) :
            val_classes' = val_classes \cup k
  /\ used_weight' = pos_weight
  /\ eval_params' = params["classifier"]
  /\ batch' = batch + 1
  /\ UNCHANGED <<inputs, pc, error, epoch, params, grad, files, writes,
                 best_loss, best_auroc, epoch_loss, avg_train_loss,
                 avg_val_loss, val_hist, pos_weight, train_classes,
                 train_auroc, val_auroc, train_report, val_report,
                 train_sum, saved_hist, best_epoch>>

\* lines 246-272: mean validation loss, validation AUROC and report
ClassifierValEnd ==
  /\ stage = "B" /\ pc = "val" /\ batch = nVal
  /\ IF nVal = 0
       THEN /\ Abort("ZeroDivisionError")
            /\ UNCHANGED <<avg_val_loss, val_auroc, val_report, val_hist>>
       ELSE /\ avg_val_loss' = Mean(val_loss, nVal)
            /\ IF RocAucRaises(val_classes)
                 THEN IF CatchesValueError
                        THEN /\ val_auroc' = NaN
                             /\ val_hist' = Append(val_hist, NaN)
                             /\ pc' = "ckpt"
                             /\ UNCHANGED <<error, val_report>>
                        ELSE /\ Abort("ValueError")
                             /\ UNCHANGED <<val_auroc, val_report, val_hist>>
                 ELSE /\ \E a \in AurocValues :
                           /\ val_auroc' = a
                           /\ val_hist' = Append(val_hist, a)
                      /\ val_report' = TRUE
                      /\ pc' = "ckpt"
                      /\ UNCHANGED error
  /\ UNCHANGED <<inputs, epoch, batch, params, grad, files, writes,
                 best_loss, best_auroc, epoch_loss, val_loss, avg_train_loss,
                 pos_weight, used_weight, train_classes, val_classes,
                 train_auroc, train_report, train_sum, val_sum, saved_hist,
                 eval_params, best_epoch>>

\* line 275: val_auroc > best_auroc
ImprovedAurocOrEqual(v, b) == GreaterEq(v, b)
ImprovedAuroc(v, b) == Greater(v, b)

\* line 276: best_auroc = val_auroc
NewBestAuroc(v, b) == v

\* lines 274-282: the checkpoint decision of the epoch
ClassifierCheckpoint ==
  /\ stage = "B" /\ pc = "ckpt"
  /\ IF ImprovedAuroc(val_auroc, best_auroc)
       THEN /\ best_auroc' = NewBestAuroc(val_auroc, best_auroc)
            /\ files' = Save(files, "best", params["classifier"])
            /\ writes' = [writes EXCEPT !["best"] = @ + 1]
            /\ best_epoch' = epoch
            /\ saved_hist' = Append(saved_hist, TRUE)
       ELSE /\ saved_hist' = Append(saved_hist, FALSE)
            /\ UNCHANGED <<best_auroc, files, writes, best_epoch>>
  /\ EndOfIteration
  /\ pc' = "loop"
  /\ UNCHANGED <<inputs, error, epoch, params, grad, best_loss, val_hist,
                 pos_weight, used_weight, eval_params>>

\* lines 285-289: the loop is over; the final checkpoint
ClassifierSaveFinal ==
  /\ stage = "B" /\ pc = "loop" /\ epoch = epochs
  /\ files' = Save(files, "final", params["classifier"])
  /\ writes' = [writes EXCEPT !["final"] = @ + 1]
  /\ pc' = "done"
  /\ UNCHANGED <<inputs, stageB, error, epoch, batch, params, grad,
                 best_loss, epoch_loss, val_loss, avg_train_loss,
                 avg_val_loss, val_hist, train_sum, val_sum, saved_hist,
                 eval_params, best_epoch>>

\* ---------------------------------------------------------------- Next
Next ==
  \/ SiameseSetup
  \/ SiameseEpochBegin
  \/ SiameseTrainBatch
  \/ SiameseTrainEnd
  \/ SiameseValBatch
  \/ SiameseValEnd
  \/ SiameseCheckpoint
  \/ SiameseSaveFinal
  \/ ClassifierSetup
  \/ ClassifierEpochBegin
  \/ ClassifierTrainBatch
  \/ ClassifierTrainEnd
  \/ ClassifierValBatch
  \/ ClassifierValEnd
  \/ ClassifierCheckpoint
  \/ ClassifierSaveFinal

Spec == Init /\ [][Next]_vars

\* A run is one thread of control that takes its next step until the
\* function returns or raises.
FairSpec == Init /\ [][Next]_vars /\ WF_vars(Next)

\* ============================================================= claims
\* the finished epochs in which the best slot was written
SavedEpochs == {e \in 1..Len(saved_hist) : saved_hist[e]}

\* C1: in Stage A the best checkpoint is written in an epoch exactly when
\* the epoch's mean validation loss is strictly less than the mean validation
\* loss of every earlier epoch of the run; every such epoch is one write.
C1_BestIffStrictlyLowestLoss ==
  stage = "A" =>
    /\ \A e \in 1..Len(saved_hist) :
         saved_hist[e] <=> \A j \in 1..(e - 1) : Less(val_hist[e], val_hist[j])
    /\ writes["best"] = Cardinality(SavedEpochs)

\* the scenario saved / not saved / saved of three epochs
C1_Witness ==
  /\ stage = "A"
  /\ saved_hist = <<TRUE, FALSE, TRUE>>
  /\ Less(val_hist[1], val_hist[2])
  /\ Less(val_hist[3], val_hist[1])

\* C2 as stated: in Stage B the best checkpoint is written in an epoch, the
\* first included, exactly when the epoch's validation AUROC is strictly
\* greater than the validation AUROC of every earlier epoch.
C2_BestIffStrictlyHighestAuroc ==
  stage = "B" =>
    \A e \in 1..Len(saved_hist) :
      saved_hist[e] <=> \A j \in 1..(e - 1) : Greater(val_hist[e], val_hist[j])

\* C2 as amended: in Stage B the best checkpoint is written in an epoch
\* exactly when the epoch's validation AUROC is a number strictly greater
\* than 0.0 and than every earlier epoch's validation AUROC that is a number.
C2_BestIffAboveZeroAndEarlierNumbers ==
  stage = "B" =>
    /\ \A e \in 1..Len(saved_hist) :
         saved_hist[e] <=>
           /\ val_hist[e] # NaN
           /\ val_hist[e] > 0
           /\ \A j \in 1..(e - 1) : val_hist[j] # NaN => val_hist[e] > val_hist[j]
    /\ writes["best"] = Cardinality(SavedEpochs)

\* a first epoch with AUROC 0.0 is not saved, an undefined AUROC is not
\* saved, and a later epoch is saved although an earlier one was undefined
C2_Witness ==
  /\ stage = "B"
  /\ val_hist = <<0, NaN, 5>>
  /\ saved_hist = <<FALSE, FALSE, TRUE>>

\* the model a stage trains
Trained == IF stage = "A" THEN "siamese" ELSE "classifier"

\* C3: the final checkpoint is written once, after the last epoch and not
\* before, and holds the parameters as they are after the last epoch's
\* training pass (the ones the last validation pass evaluated, reached by
\* epochs * len(train_loader) optimizer steps), whatever the best slot holds.
C3_FinalHoldsLastParameters ==
  /\ pc # "done" => writes["final"] = 0 /\ ~files["final"].exists
  /\ pc = "done" =>
       /\ writes["final"] = 1
       /\ files["final"].exists
       /\ files["final"].state = params[Trained]
       /\ files["final"].state = epochs * nTrain
       /\ epochs > 0 => files["final"].state = eval_params

\* a finished run whose last epoch did not write the best slot, so that the
\* two slots hold different parameters
C3_Witness ==
  /\ pc = "done"
  /\ epochs = 3
  /\ saved_hist = <<TRUE, FALSE, FALSE>>
  /\ files["final"].state # files["best"].state

\* C4 as stated: every run that completes has written both checkpoints.
C4_TwoCheckpointsWritten ==
  pc = "done" => writes["best"] >= 1 /\ writes["final"] >= 1

\* C4 as amended: every run that completes has written the final checkpoint
\* once; it has written the best checkpoint exactly when some epoch's
\* validation metric beat the initial record: in Stage A when there was at
\* least one epoch, in Stage B when some epoch's validation AUROC is a
\* number greater than 0.0.
C4_FinalAlwaysBestIfBeaten ==
  pc = "done" =>
    /\ writes["final"] = 1
    /\ files["final"].exists
    /\ files["best"].exists <=> writes["best"] >= 1
    /\ stage = "A" => (writes["best"] >= 1 <=> epochs >= 1)
    /\ stage = "B" =>
         (writes["best"] >= 1 <=>
            \E e \in 1..Len(val_hist) : val_hist[e] # NaN /\ val_hist[e] > 0)

\* a finished Stage B run of three epochs that never wrote the best slot
C4_Witness ==
  /\ pc = "done"
  /\ stage = "B"
  /\ epochs = 3
  /\ writes["best"] = 0
  /\ writes["final"] = 1

\* an epoch of Stage B one of whose splits held a single class
SingleClassEpoch ==
  /\ stage = "B"
  /\ \/ pc = "val" /\ RocAucRaises(train_classes)
     \/ pc = "ckpt" /\ (RocAucRaises(train_classes) \/ RocAucRaises(val_classes))

\* C5: in Stage B a split whose labels of the epoch are all of one class
\* gets the AUROC not-a-number, no run ends with the ValueError, and the
\* run goes on to write the final checkpoint after all its epochs (given a
\* validation loader that is not empty, whose mean loss can be computed).
C5_SingleClassIsNaNAndRunGoesOn ==
  /\ [](stage = "B" =>
          /\ pc \in {"val", "ckpt"} /\ RocAucRaises(train_classes)
               => train_auroc = NaN
          /\ pc = "ckpt" /\ RocAucRaises(val_classes)
               => val_auroc = NaN /\ val_hist[epoch] = NaN
          /\ error # "ValueError")
  /\ (SingleClassEpoch /\ nVal > 0) ~>
       (pc = "done" /\ writes["final"] = 1 /\ Len(val_hist) = epochs)

\* a finished run with an epoch whose validation AUROC was not-a-number and
\* a later epoch whose validation AUROC was a number
C5_Witness ==
  /\ stage = "B"
  /\ pc = "done"
  /\ val_hist = <<5, NaN, 10>>

\* a batch of Stage B has computed its loss
LossComputed == used_weight # NoWeight

\* C6: in Stage B the positive-class weight is benign_count /
\* malignant_count of the training set, is set before the first epoch and
\* never changes afterwards, and every batch's loss uses that value.
C6_PosWeightIsCountRatio ==
  /\ [](stage = "B" /\ pc \notin {"start", "aborted"} =>
          /\ ds[2] > 0 /\ pos_weight[2] > 0
          /\ pos_weight[1] * ds[2] = ds[1] * pos_weight[2])
  /\ [](LossComputed => used_weight = pos_weight /\ pos_weight # NoWeight)
  /\ [][pc # "start" => pos_weight' = pos_weight]_vars

\* labels with three benign and two malignant: weight 1.5, still used in
\* the third epoch
C6_Witness ==
  /\ stage = "B"
  /\ ds = <<3, 2>>
  /\ epoch = 3
  /\ pc = "val"
  /\ batch = 1
  /\ used_weight[1] * 10 = 15 * used_weight[2]

\* C7: the mean loss of a pass is the sum of its batch losses divided by
\* the number of batches of the loader, whatever the batch sizes.
C7_MeanIsSumOverBatches ==
  /\ pc \in {"val", "ckpt"} =>
       /\ avg_train_loss[2] = nTrain /\ nTrain > 0
       /\ avg_train_loss[1] * nTrain = train_sum * avg_train_loss[2]
  /\ pc = "ckpt" =>
       /\ avg_val_loss[2] = nVal /\ nVal > 0
       /\ avg_val_loss[1] * nVal = val_sum * avg_val_loss[2]
       /\ stage = "A" => val_hist[epoch] = avg_val_loss

\* two batches with losses adding up to 1.2 (12 tenths) give the mean 0.6
C7_Witness ==
  /\ pc = "val"
  /\ nTrain = 2
  /\ train_sum = 12
  /\ avg_train_loss[1] = 6 * avg_train_loss[2]

\* C8: throughout Stage B the embedding model's parameters stay what they
\* were at the start and never hold a gradient.
C8_SiameseFrozen ==
  stage = "B" => params["siamese"] = 0 /\ "siamese" \notin grad

\* a finished Stage B run that updated the classifier in several epochs
C8_Witness ==
  /\ stage = "B"
  /\ pc = "done"
  /\ epochs = 3
  /\ params["classifier"] = 6

\* C9 as stated: in every epoch of Stage B both classification reports have
\* been printed when the epoch reaches its checkpoint decision.
C9_ReportsEveryEpoch ==
  stage = "B" /\ pc = "ckpt" => train_report /\ val_report

\* C10: the best slot holds the parameters that the validation pass of the
\* epoch that wrote it evaluated; the best record is the validation metric
\* of that epoch; the best loss never increases, the best AUROC never
\* decreases and is never not-a-number.
C10_BestSlotMatchesRecord ==
  /\ [](/\ best_epoch = 0 <=> ~files["best"].exists
        /\ best_epoch >= 1 =>
             /\ saved_hist[best_epoch]
             /\ files["best"].state = best_epoch * nTrain
             /\ best_epoch = epoch /\ pc \in {"loop", "done"}
                  => files["best"].state = eval_params
             /\ stage = "A" => best_loss = val_hist[best_epoch]
             /\ stage = "B" => best_auroc = val_hist[best_epoch]
        /\ best_auroc # NaN)
  /\ [][/\ LessEq(best_loss', best_loss)
        /\ best_auroc' >= best_auroc]_vars

\* the best slot still holds the second epoch after a third one that did
\* not improve
C10_Witness ==
  /\ stage = "B"
  /\ pc = "done"
  /\ epoch = 3
  /\ best_epoch = 2
  /\ best_auroc = 5
  /\ val_hist = <<NaN, 5, 5>>

====
